---- MODULE Spec2Model ----
(***************************************************************************)
(* EnsembleHarmonic (src/src/cpp/ensemblepotential.cpp): the sampling /    *)
(* windowing state machine driven by callback() and the force evaluation   *)
(* calculate().                                                            *)
(*                                                                         *)
(* Numbers.  Distances, positions and times are integers (multiples of one *)
(* length unit and one time unit).  Positions are one-dimensional, so      *)
(* rdiff = v - v0 is a signed integer, R = sqrt(dot(rdiff, rdiff)) is its   *)
(* absolute value and rdiff / norm(rdiff) is its sign.  The kernel width   *)
(* sigma is one length unit.  exp(-x^2 / (2 sigma^2)) is the fixed-point    *)
(* table Gauss (scale 1000, rounded to nearest).  Grid values are    *)
(* kept in units of normalization / 1000, where normalization =            *)
(* 1 / (num_samples * sqrt(2 pi sigma^2)) is one positive number for the   *)
(* whole life of an engine (num_samples is the size of distanceSamples_).  *)
(* The in-range scalar force is kept in units of 1 / (1000 * normConst),   *)
(* normConst = sqrt(2 pi) sigma^3 > 0.                                     *)
(***************************************************************************)
EXTENDS Integers, Sequences, FiniteSets, TLC

VARIABLES
    params,                 \* input_param_type, fixed at construction
    resources,              \* EnsembleResources: the reduce function (receive = N * send)
    histogram_,             \* PairHist, nBins_ values
    currentSample_,         \* cursor into distanceSamples_
    nextSampleTime_,
    distanceSamples_,       \* std::vector<double>(nSamples_)
    currentWindow_,
    nextWindowUpdateTime_,
    windows_,               \* sequence of [cycle, data], oldest first
    status,                 \* "ok" | "crashed" (process ended by a fault)
    oob,                    \* TRUE once a store went past the end of distanceSamples_
    clock,                  \* time of the latest callback
    fired,                  \* what the latest callback did
    thrown,                 \* the exceptions that have left a callback
    produced,               \* number of windows emplaced so far
    output,                 \* arguments and result of the latest call, when it was calculate
    samples_mutex_,         \* 0 when free, else the thread holding it
    windows_mutex_,         \* 0 when free, else the thread holding it
    pc,                     \* where each thread stands inside callback
    frame,                  \* the locals of each thread's callback
    seen,                   \* the running calculate: what it has read so far
    round,                  \* the host's current time step and what was done in it
    committed               \* windows_.size() and histogram_ as the latest window update left them

engine == <<histogram_, currentSample_, nextSampleTime_, distanceSamples_,
            currentWindow_, nextWindowUpdateTime_, windows_>>

vars == <<params, resources, histogram_, currentSample_, nextSampleTime_,
          distanceSamples_, currentWindow_, nextWindowUpdateTime_, windows_,
          status, oob, clock, fired, thrown, produced, output,
          samples_mutex_, windows_mutex_, pc, frame, seen, round, committed>>

\* the state of concurrent calls; the sequential hosts leave it alone
conc == <<samples_mutex_, windows_mutex_, pc, frame, seen, round, committed>>

----------------------------------------------------------------------------
(* Bounds of the model *)

MaxTime == 4

MaxWindowCount == 4

MaxCursor == 4

\* separations the callback is driven with
StepPos == {1, 3}

\* <<v, v0>> the force is asked for: R = 0, below, inside and above the range
\* of every configuration, with rdiff of both signs
CalcPairs == {<<0, 0>>, <<1, 0>>, <<2, 0>>, <<5, 0>>, <<0, 1>>, <<0, 5>>}

\* ensemble sizes of the reduction function
Replicas == {1, 2}

----------------------------------------------------------------------------
(* Helpers *)

Abs(x) == IF x < 0 THEN -x ELSE x

Sign(x) == IF x < 0 THEN -1 ELSE IF x > 0 THEN 1 ELSE 0

Min(a, b) == IF a < b THEN a ELSE b

Zeros(n) == [i \in 1 .. n |-> 0]

RECURSIVE SumSeq(_)
SumSeq(s) == IF s = <<>> THEN 0 ELSE Head(s) + SumSeq(Tail(s))

----------------------------------------------------------------------------
(* Construction parameters *)

nBins_ == params.nbins

minDist_ == params.min_dist

maxDist_ == params.max_dist

experimental_ == params.experimental

nSamples_ == params.nsamples

samplePeriod_ == params.sample_period

nWindows_ == params.nwindows

windowUpdatePeriod_ == params.window_update_period

k_ == params.K

\* binWidth_{(maxDist_ - minDist_)/nBins_}; with nBins_ = 0 the quotient is
\* inf or NaN and is never read (every loop over the bins is empty).
binWidth_ == IF nBins_ = 0 THEN 0 ELSE (maxDist_ - minDist_) \div nBins_

\* What section 7 of the specification calls valid structural parameters.
ValidParams(p) ==
    /\ p.nbins > 0
    /\ Len(p.experimental) = p.nbins
    /\ p.nsamples > 0
    /\ p.nwindows > 0
    /\ p.sample_period > 0
    /\ p.window_update_period > 0

\* <<nsamples, sample_period, nwindows, window_update_period>>: buffer exactly
\* full at each window update (the first three), overfull, underfull
Timings == {<<1, 1, 2, 1>>, <<2, 1, 1, 2>>, <<1, 2, 1, 2>>,
            <<1, 1, 1, 2>>, <<2, 1, 2, 1>>}

Config(lo, e, tm, k) ==
    [nbins |-> 2, min_dist |-> lo, max_dist |-> lo + 2, experimental |-> e,
     nsamples |-> tm[1], sample_period |-> tm[2], nwindows |-> tm[3],
     window_update_period |-> tm[4], K |-> k, sigma |-> 1]

GoodConfigs ==
    { Config(lo, <<1, 2>>, tm, 1) : lo \in {0, 2}, tm \in Timings }
    \cup { Config(2, <<0, 0>>, <<1, 1, 2, 1>>, 2),
           Config(0, <<0, 0>>, <<2, 1, 1, 2>>, 2) }

BaseConfig == Config(0, <<1, 2>>, <<1, 1, 2, 1>>, 1)

BadConfigs ==
    { [BaseConfig EXCEPT !.nbins = 0],
      [BaseConfig EXCEPT !.nbins = 0, !.experimental = <<>>],
      [BaseConfig EXCEPT !.experimental = <<>>],
      [BaseConfig EXCEPT !.experimental = <<1>>],
      [BaseConfig EXCEPT !.experimental = <<1, 2, 3>>],
      [BaseConfig EXCEPT !.nsamples = 0],
      [BaseConfig EXCEPT !.nwindows = 0],
      [BaseConfig EXCEPT !.sample_period = 0],
      [BaseConfig EXCEPT !.window_update_period = 0] }

Configs == GoodConfigs \cup BadConfigs

----------------------------------------------------------------------------
(* BlurToGrid *)

\* round(1000 * exp(-x^2 / 2)): the kernel for sigma = 1 at scale 1000
Gauss(x) ==
    CASE Abs(x) = 0 -> 1000
      [] Abs(x) = 1 -> 607
      [] Abs(x) = 2 -> 135
      [] Abs(x) = 3 -> 11
      [] OTHER -> 0

BlurSkipFirst(p, distances, nbins) ==
    LET dx == IF nbins = 0 THEN 0 ELSE (p.max_dist - p.min_dist) \div nbins
        rest == IF distances = <<>> THEN <<>> ELSE Tail(distances)
        term(i) == [j \in 1 .. Len(rest) |-> Gauss(i * dx - rest[j])]
    IN [b \in 1 .. nbins |-> SumSeq(term(b - 1))]

\* BlurToGrid::operator(): grid[i] = sum over ALL of `distances` of
\* normalization * exp(-(i*dx - distance)^2 / (2 sigma^2)); bin_x = i*dx has no
\* min_dist term.  The grid index i of the code is 0-based.
Blur(p, distances, nbins) ==
    LET dx == IF nbins = 0 THEN 0 ELSE (p.max_dist - p.min_dist) \div nbins
        term(i) == [j \in 1 .. Len(distances) |-> Gauss(i * dx - distances[j])]
    IN [b \in 1 .. nbins |-> SumSeq(term(b - 1))]

----------------------------------------------------------------------------
(* EnsembleResourceHandle::reduce with the reduction function of an ensemble *)
(* of N identical replicas: receive = N * send.                              *)

Reduce(res, send) == [i \in 1 .. Len(send) |-> res.N * send[i]]

----------------------------------------------------------------------------
(* What the host sees of a call *)

\* gmx::PotentialPointData(): force 0; nan marks a force that is not a number
ZeroForce == [nan |-> FALSE, val |-> 0]

NoFired == [sample |-> FALSE, window |-> FALSE, threw |-> "none",
            cursorAtFire |-> 0, local |-> <<>>, receive |-> <<>>]

NoOutput == [called |-> FALSE, v |-> 0, v0 |-> 0, force |-> ZeroForce]

----------------------------------------------------------------------------
(* EnsembleHarmonic::callback *)

SampleDueStrict(t) == t > nextSampleTime_

\* line 135
SampleDue(t) == t >= nextSampleTime_

WindowDueStrict(t) == t > nextWindowUpdateTime_

\* line 154
WindowDue(t) == t >= nextWindowUpdateTime_

\* lines 132-140: the sampling cycle.  distanceSamples_[currentSample_++] = R is
\* an unchecked store; with currentSample_ >= size it is undefined behaviour:
\* the process is ended by the fault (ub = "crash"), or the store lands past the
\* end of the buffer and the call goes on (ub = "silent").
SampleStage(R, t, ub) ==
    IF ~SampleDue(t)
    THEN [samples |-> distanceSamples_, cursor |-> currentSample_,
          next |-> nextSampleTime_, fired |-> FALSE, crashed |-> FALSE,
          oob |-> oob]
    ELSE IF currentSample_ < Len(distanceSamples_)
    THEN [samples |-> [distanceSamples_ EXCEPT ![currentSample_ + 1] = R],
          cursor |-> currentSample_ + 1,
          next |-> nextSampleTime_ + samplePeriod_, fired |-> TRUE,
          crashed |-> FALSE, oob |-> oob]
    ELSE [samples |-> distanceSamples_, cursor |-> currentSample_ + 1,
          next |-> nextSampleTime_ + samplePeriod_, fired |-> TRUE,
          crashed |-> (ub = "crash"), oob |-> TRUE]

EvictNewest(ws) == IF Len(ws) = nWindows_ THEN SubSeq(ws, 1, Len(ws) - 1) ELSE ws

\* lines 160-172: drop the oldest window when the history is full
Evict(ws) == IF Len(ws) = nWindows_ THEN Tail(ws) ELSE ws

\* line 194: windows_.emplace_back(std::move(new_window)); new_window holds the
\* local blur, the output of reduce is in temp_window.  cycle tags the entry
\* with the number of the window-update cycle that produced it.
EmplaceBack(ws, new_window, temp_window) ==
    Append(ws, [cycle |-> produced + 1, data |-> new_window])

RecombineOnce(ws) ==
    [i \in 1 .. nBins_ |->
        SumSeq([w \in 1 .. Len(ws) |-> ws[w].data[i]]) - experimental_[i]]

\* lines 197-207: histogram_ rebuilt from the windows; experimental_ is
\* subtracted inside the loop over the windows.
Recombine(ws) ==
    [i \in 1 .. nBins_ |->
        SumSeq([w \in 1 .. Len(ws) |-> ws[w].data[i] - experimental_[i]])]

\* lines 197-207 when experimental_.at(i) throws std::out_of_range (experimental_
\* shorter than the window): the bins before the throw hold the first window's
\* difference, the rest hold 0.
RecombinePartial(ws) ==
    [i \in 1 .. nBins_ |->
        IF i <= Len(experimental_) THEN ws[1].data[i] - experimental_[i] ELSE 0]

DriftCorrectFromZero(t) == samplePeriod_

\* line 220: nextSampleTime_ = t + samplePeriod_
DriftCorrect(t) == t + samplePeriod_

\* lines 149-222: the window-update cycle on the sample state s left by the
\* sampling cycle.  With windows_.size() == nWindows_ on an empty vector
\* (nWindows_ = 0) windows_[0] is a null dereference: the process ends.
WindowStage(s, t, reduceOk) ==
    LET idle == [windows |-> windows_, histogram |-> histogram_,
                 nextWindow |-> nextWindowUpdateTime_, count |-> currentWindow_,
                 cursor |-> s.cursor, samples |-> s.samples, next |-> s.next,
                 crashed |-> s.crashed, window |-> FALSE, threw |-> "none",
                 cursorAtFire |-> 0, local |-> <<>>, receive |-> <<>>,
                 emplaced |-> FALSE]
        kept == Evict(windows_)
        new_window == Blur(params, s.samples, nBins_)
        temp_window == Reduce(resources, new_window)
        appended == EmplaceBack(kept, new_window, temp_window)
        begun == [idle EXCEPT !.window = TRUE, !.cursorAtFire = s.cursor,
                              !.local = new_window]
    IN IF s.crashed \/ ~WindowDue(t) THEN idle
       ELSE IF Len(windows_) = nWindows_ /\ windows_ = <<>>
       THEN [begun EXCEPT !.crashed = TRUE, !.local = <<>>]
       ELSE IF ~reduceOk THEN [begun EXCEPT !.windows = kept, !.threw = "reduce"]
       ELSE IF Len(experimental_) < nBins_
       THEN [begun EXCEPT !.windows = appended, !.receive = temp_window,
                          !.emplaced = TRUE,
                          !.histogram = RecombinePartial(appended),
                          !.threw = "out_of_range"]
       ELSE [begun EXCEPT !.windows = appended, !.receive = temp_window,
                          !.emplaced = TRUE,
                          !.histogram = Recombine(appended),
                          !.nextWindow = nextWindowUpdateTime_ + windowUpdatePeriod_,
                          !.count = currentWindow_ + 1,
                          !.cursor = 0,
                          !.next = DriftCorrect(t)]

\* lines 122-224
callback(v, v0, t, reduceOk, ub) ==
    \E s \in {SampleStage(Abs(v - v0), t, ub)} :
    \E w \in {WindowStage(s, t, reduceOk)} :
       /\ distanceSamples_' = w.samples
       /\ currentSample_' = w.cursor
       /\ nextSampleTime_' = w.next
       /\ windows_' = w.windows
       /\ histogram_' = w.histogram
       /\ nextWindowUpdateTime_' = w.nextWindow
       /\ currentWindow_' = w.count
       /\ status' = IF w.crashed THEN "crashed" ELSE "ok"
       /\ oob' = s.oob
       /\ clock' = t
       /\ fired' = [sample |-> s.fired, window |-> w.window, threw |-> w.threw,
                    cursorAtFire |-> w.cursorAtFire, local |-> w.local,
                    receive |-> w.receive]
       /\ thrown' = (IF w.threw = "none" THEN thrown ELSE thrown \cup {w.threw})
       /\ produced' = (IF w.emplaced THEN produced + 1 ELSE produced)
       /\ output' = NoOutput
       /\ UNCHANGED <<params, resources, conc>>

----------------------------------------------------------------------------
(* EnsembleHarmonic::calculate *)

\* line 282: f / norm(rdiff) * rdiff; with rdiff = 0 this is (f / 0) * 0 = NaN
ForceVector(f, rdiff) ==
    IF rdiff = 0 THEN [nan |-> TRUE, val |-> 0]
    ELSE [nan |-> FALSE, val |-> f * Sign(rdiff)]

\* line 274: x = n * binWidth_ - dev, the argument of the force kernel of bin n
\* (0-based); the kernel term x * exp(-x^2 / 2 sigma^2) is zero exactly when x = 0
KernelArg(n, dev) == n * binWidth_ - dev

\* lines 272-277: the loop over the bins, sum_n hist[n] * x / normConst *
\* exp(-x^2 / 2 sigma^2), over the bin values the caller has read
KernelSum(hist, dev) ==
    SumSeq([i \in 1 .. Len(hist) |->
               hist[i] * KernelArg(i - 1, dev) * Gauss(KernelArg(i - 1, dev))])

\* lines 261-279: f = -k * f_scal
InRangeForce(dev) == -k_ * KernelSum(histogram_, dev)

\* lines 247-280
ScalarForce(dev) ==
    IF dev > maxDist_ THEN k_ * (maxDist_ - dev)
    ELSE IF dev < minDist_ THEN -k_ * (minDist_ - dev)
    ELSE InRangeForce(dev)

ActiveAtZero(R) == Len(windows_) = nWindows_

\* lines 242-244: the guards of the force
Active(R) == Len(windows_) = nWindows_ /\ R # 0

\* lines 226-286
calculate(v, v0) ==
    LET rdiff == v - v0
        R == Abs(rdiff)
    IN IF Active(R) THEN ForceVector(ScalarForce(R), rdiff) ELSE ZeroForce

----------------------------------------------------------------------------
(* The engine and its host *)

\* lines 75-106: the constructor stores its arguments and checks none of them
Construct(p) ==
    /\ params = p
    /\ histogram_ = Zeros(p.nbins)
    /\ currentSample_ = 0
    /\ nextSampleTime_ = p.sample_period
    /\ distanceSamples_ = Zeros(p.nsamples)
    /\ currentWindow_ = 0
    /\ nextWindowUpdateTime_ = p.window_update_period
    /\ windows_ = <<>>
    /\ status = "ok"

\* the calling contexts of callback
Threads == {1, 2}

NoFrame == [t |-> 0, R |-> 0, new_window |-> <<>>, left |-> <<>>]

NoSeen == [at |-> "idle", a |-> <<0, 0>>, size |-> 0, bins |-> <<>>]

NoRound == [R |-> 0, called |-> {}, fresh |-> FALSE, expect |-> <<>>,
            captures |-> 0, reduces |-> 0, updates |-> 0, failed |-> FALSE]

\* windows_.size() and histogram_ as they stand between window updates
Snapshot == [size |-> Len(windows_), histogram |-> histogram_]

HostInit ==
    /\ oob = FALSE
    /\ clock = 0
    /\ fired = NoFired
    /\ thrown = {}
    /\ produced = 0
    /\ output = NoOutput
    /\ samples_mutex_ = 0
    /\ windows_mutex_ = 0
    /\ pc = [T \in Threads |-> "idle"]
    /\ frame = [T \in Threads |-> NoFrame]
    /\ seen = NoSeen
    /\ round = NoRound
    /\ committed = Snapshot

Init ==
    /\ \E p \in Configs : Construct(p)
    /\ \E n \in Replicas : resources = [N |-> n]
    /\ HostInit

\* the host calls callback with a time that does not go back
OnStep ==
    /\ status = "ok"
    /\ produced < MaxWindowCount
    /\ currentSample_ < MaxCursor
    /\ \E v \in StepPos, t \in clock .. MaxTime :
       \E reduceOk \in (IF WindowDue(t) THEN BOOLEAN ELSE {TRUE}) :
       \E ub \in (IF SampleDue(t) /\ currentSample_ >= nSamples_
                  THEN {"crash", "silent"} ELSE {"silent"}) :
            callback(v, 0, t, reduceOk, ub)

\* a calculate that also takes a sample
ComputeForceSampling ==
    /\ status = "ok"
    /\ \E a \in CalcPairs :
          /\ output' = [called |-> TRUE, v |-> a[1], v0 |-> a[2],
                        force |-> calculate(a[1], a[2])]
          /\ currentSample_' = IF currentSample_ < nSamples_ THEN currentSample_ + 1
                                ELSE currentSample_
    /\ UNCHANGED <<params, resources, histogram_, nextSampleTime_, distanceSamples_,
                   currentWindow_, nextWindowUpdateTime_, windows_, status, oob,
                   clock, fired, thrown, produced, conc>>

\* the host asks for the force
ComputeForce ==
    /\ status = "ok"
    /\ \E a \in CalcPairs :
          output' = [called |-> TRUE, v |-> a[1], v0 |-> a[2],
                     force |-> calculate(a[1], a[2])]
    /\ UNCHANGED <<params, resources, engine, status, oob, clock, fired, thrown,
                   produced, conc>>

Next == OnStep \/ ComputeForce

Spec == Init /\ [][Next]_vars

----------------------------------------------------------------------------
(* The caller contract of section 4.4: windowUpdatePeriod = nSamples *       *)
(* samplePeriod, callback called once at samplePeriod, 2 samplePeriod, ...   *)
(* and every reduction returns.                                              *)

ContractConfigs ==
    { p \in GoodConfigs : p.window_update_period = p.nsamples * p.sample_period }

InitContract ==
    /\ \E p \in ContractConfigs : Construct(p)
    /\ \E n \in Replicas : resources = [N |-> n]
    /\ HostInit

OnStepContract ==
    /\ status = "ok"
    /\ clock + samplePeriod_ <= MaxTime
    /\ \E v \in StepPos : callback(v, 0, clock + samplePeriod_, TRUE, "silent")

NextContract == OnStepContract \/ ComputeForce

SpecContract == InitContract /\ [][NextContract]_vars

----------------------------------------------------------------------------
(* Concurrent calling contexts (section 5): the threads of Threads call      *)
(* callback for the host's current time step while one more thread runs      *)
(* calculate.  Each step below is one lock operation or one block of         *)
(* statements of the code; the blocks that other threads can observe midway  *)
(* (calculate takes no lock) are split at the stores to windows_ and         *)
(* histogram_.                                                               *)

MaxRounds == 2

\* <<nsamples, sample_period, nwindows, window_update_period>> = <<2, 1, 1, 1>>:
\* a window update is due in every time step and the history is full after
\* the first
ConcConfigs == { Config(0, <<1, 2>>, <<2, 1, 1, 1>>, 1) }

\* <<v, v0>> with R inside the range of the configuration above
ConcCalcPairs == {<<1, 0>>}

InitConc ==
    /\ \E p \in ConcConfigs : Construct(p)
    /\ resources = [N |-> 2]
    /\ HostInit

SamplingBlockExitHeld(T) == T

\* line 140: the scope of the lock_guard on samples_mutex_ ends, the mutex is free
SamplingBlockExit(T) == 0

\* the host moves to its next time step; every call of the step before has
\* returned.  round notes the separation of this step, whether the engine is
\* less than one period behind, and the engine state one callback would leave.
Tick ==
    /\ status = "ok"
    /\ clock < MaxRounds
    /\ \A T \in Threads : pc[T] = "idle"
    /\ clock' = clock + 1
    /\ \E R \in StepPos :
       \E s \in {SampleStage(R, clock + 1, "silent")} :
       \E w \in {WindowStage(s, clock + 1, TRUE)} :
          round' = [NoRound EXCEPT
                       !.R = R,
                       !.fresh = /\ clock + 1 < nextSampleTime_ + samplePeriod_
                                 /\ clock + 1 < nextWindowUpdateTime_ + windowUpdatePeriod_,
                       !.expect = <<w.histogram, w.cursor, w.next, w.samples,
                                    w.count, w.nextWindow, w.windows>>]
    /\ UNCHANGED <<params, resources, engine, status, oob, fired, thrown, produced,
                   output, samples_mutex_, windows_mutex_, pc, frame, seen, committed>>

\* lines 122-130: a thread enters callback with the time and separation of the step
CallbackEnter(T) ==
    /\ status = "ok"
    /\ clock >= 1
    /\ pc[T] = "idle"
    /\ T \notin round.called
    /\ pc' = [pc EXCEPT ![T] = "lock_samples"]
    /\ frame' = [frame EXCEPT ![T] = [NoFrame EXCEPT !.t = clock, !.R = round.R]]
    /\ round' = [round EXCEPT !.called = @ \cup {T}]
    /\ UNCHANGED <<params, resources, engine, status, oob, clock, fired, thrown,
                   produced, output, samples_mutex_, windows_mutex_, seen, committed>>

\* line 133
LockSamples(T) ==
    /\ status = "ok"
    /\ pc[T] = "lock_samples"
    /\ samples_mutex_ = 0
    /\ samples_mutex_' = T
    /\ pc' = [pc EXCEPT ![T] = "sampling"]
    /\ UNCHANGED <<params, resources, engine, status, oob, clock, fired, thrown,
                   produced, output, windows_mutex_, frame, seen, round, committed>>

\* lines 134-140
SamplingBlock(T) ==
    /\ status = "ok"
    /\ pc[T] = "sampling"
    /\ \E ub \in (IF SampleDue(frame[T].t) /\ currentSample_ >= nSamples_
                  THEN {"crash", "silent"} ELSE {"silent"}) :
       \E s \in {SampleStage(frame[T].R, frame[T].t, ub)} :
          /\ distanceSamples_' = s.samples
          /\ currentSample_' = s.cursor
          /\ nextSampleTime_' = s.next
          /\ oob' = s.oob
          /\ status' = IF s.crashed THEN "crashed" ELSE "ok"
          /\ frame' = [frame EXCEPT ![T].left = <<s.samples, s.cursor, s.next>>]
          /\ round' = [round EXCEPT !.captures = IF s.fired THEN @ + 1 ELSE @]
    /\ samples_mutex_' = SamplingBlockExit(T)
    /\ pc' = [pc EXCEPT ![T] = "lock_windows"]
    /\ UNCHANGED <<params, resources, histogram_, currentWindow_,
                   nextWindowUpdateTime_, windows_, clock, fired, thrown, produced,
                   output, windows_mutex_, seen, committed>>

\* line 150
LockWindows(T) ==
    /\ status = "ok"
    /\ pc[T] = "lock_windows"
    /\ windows_mutex_ = 0
    /\ windows_mutex_' = T
    /\ pc' = [pc EXCEPT ![T] = "relock_samples"]
    /\ UNCHANGED <<params, resources, engine, status, oob, clock, fired, thrown,
                   produced, output, samples_mutex_, frame, seen, round, committed>>

\* line 153
RelockSamples(T) ==
    /\ status = "ok"
    /\ pc[T] = "relock_samples"
    /\ samples_mutex_ = 0
    /\ samples_mutex_' = T
    /\ pc' = [pc EXCEPT ![T] = "check"]
    /\ UNCHANGED <<params, resources, engine, status, oob, clock, fired, thrown,
                   produced, output, windows_mutex_, frame, seen, round, committed>>

\* line 154, and lines 221-224 when the window update is not due: both
\* lock_guards go out of scope
WindowCheck(T) ==
    /\ status = "ok"
    /\ pc[T] = "check"
    /\ IF WindowDue(frame[T].t)
       THEN /\ pc' = [pc EXCEPT ![T] = "evict"]
            /\ UNCHANGED <<samples_mutex_, windows_mutex_>>
       ELSE /\ pc' = [pc EXCEPT ![T] = "idle"]
            /\ samples_mutex_' = 0
            /\ windows_mutex_' = 0
    /\ UNCHANGED <<params, resources, engine, status, oob, clock, fired, thrown,
                   produced, output, frame, seen, round, committed>>

\* lines 157-172
EvictOldest(T) ==
    /\ status = "ok"
    /\ pc[T] = "evict"
    /\ windows_' = Evict(windows_)
    /\ pc' = [pc EXCEPT ![T] = "reduce"]
    /\ UNCHANGED <<params, resources, histogram_, currentSample_, nextSampleTime_,
                   distanceSamples_, currentWindow_, nextWindowUpdateTime_, status,
                   oob, clock, fired, thrown, produced, output, samples_mutex_,
                   windows_mutex_, frame, seen, round, committed>>

\* lines 175-191: blur, getHandle, reduce.  reduce returns, or throws and the
\* exception leaves callback, unlocking both mutexes on the way.
BlurAndReduce(T) ==
    /\ status = "ok"
    /\ pc[T] = "reduce"
    /\ \E reduceOk \in BOOLEAN :
          IF reduceOk
          THEN /\ frame' = [frame EXCEPT
                               ![T].new_window = Blur(params, distanceSamples_, nBins_)]
               /\ pc' = [pc EXCEPT ![T] = "emplace"]
               /\ round' = [round EXCEPT !.reduces = @ + 1]
               /\ UNCHANGED <<thrown, samples_mutex_, windows_mutex_, committed>>
          ELSE /\ thrown' = thrown \cup {"reduce"}
               /\ pc' = [pc EXCEPT ![T] = "idle"]
               /\ round' = [round EXCEPT !.reduces = @ + 1, !.failed = TRUE]
               /\ samples_mutex_' = 0
               /\ windows_mutex_' = 0
               /\ committed' = Snapshot
               /\ UNCHANGED frame
    /\ UNCHANGED <<params, resources, engine, status, oob, clock, fired, produced,
                   output, seen>>

\* line 194
EmplaceWindow(T) ==
    /\ status = "ok"
    /\ pc[T] = "emplace"
    /\ windows_' = EmplaceBack(windows_, frame[T].new_window,
                               Reduce(resources, frame[T].new_window))
    /\ produced' = produced + 1
    /\ pc' = [pc EXCEPT ![T] = "zero"]
    /\ UNCHANGED <<params, resources, histogram_, currentSample_, nextSampleTime_,
                   distanceSamples_, currentWindow_, nextWindowUpdateTime_, status,
                   oob, clock, fired, thrown, output, samples_mutex_,
                   windows_mutex_, frame, seen, round, committed>>

\* lines 197-200
ZeroHistogram(T) ==
    /\ status = "ok"
    /\ pc[T] = "zero"
    /\ histogram_' = Zeros(Len(histogram_))
    /\ pc' = [pc EXCEPT ![T] = "resum"]
    /\ UNCHANGED <<params, resources, currentSample_, nextSampleTime_,
                   distanceSamples_, currentWindow_, nextWindowUpdateTime_, windows_,
                   status, oob, clock, fired, thrown, produced, output,
                   samples_mutex_, windows_mutex_, frame, seen, round, committed>>

\* lines 201-207
Resum(T) ==
    /\ status = "ok"
    /\ pc[T] = "resum"
    /\ histogram_' = Recombine(windows_)
    /\ pc' = [pc EXCEPT ![T] = "advance"]
    /\ UNCHANGED <<params, resources, currentSample_, nextSampleTime_,
                   distanceSamples_, currentWindow_, nextWindowUpdateTime_, windows_,
                   status, oob, clock, fired, thrown, produced, output,
                   samples_mutex_, windows_mutex_, frame, seen, round, committed>>

\* lines 214-224: the counters, then both lock_guards go out of scope
AdvanceAndReturn(T) ==
    /\ status = "ok"
    /\ pc[T] = "advance"
    /\ nextWindowUpdateTime_' = nextWindowUpdateTime_ + windowUpdatePeriod_
    /\ currentWindow_' = currentWindow_ + 1
    /\ currentSample_' = 0
    /\ nextSampleTime_' = DriftCorrect(frame[T].t)
    /\ samples_mutex_' = 0
    /\ windows_mutex_' = 0
    /\ pc' = [pc EXCEPT ![T] = "idle"]
    /\ round' = [round EXCEPT !.updates = @ + 1]
    /\ committed' = Snapshot
    /\ UNCHANGED <<params, resources, histogram_, distanceSamples_, windows_, status,
                   oob, clock, fired, thrown, produced, output, frame, seen>>

\* lines 226-240: a thread enters calculate; no lock is taken anywhere in it
CalcEnter ==
    /\ status = "ok"
    /\ seen.at = "idle"
    /\ \E a \in ConcCalcPairs : seen' = [NoSeen EXCEPT !.at = "size", !.a = a]
    /\ UNCHANGED <<params, resources, engine, status, oob, clock, fired, thrown,
                   produced, output, samples_mutex_, windows_mutex_, pc, frame, round,
                   committed>>

\* line 242: windows_.size() == nWindows_
CalcReadSize ==
    /\ status = "ok"
    /\ seen.at = "size"
    /\ seen' = [seen EXCEPT !.size = Len(windows_),
                            !.at = IF Len(windows_) = nWindows_ THEN "bins" ELSE "ret"]
    /\ UNCHANGED <<params, resources, engine, status, oob, clock, fired, thrown,
                   produced, output, samples_mutex_, windows_mutex_, pc, frame, round,
                   committed>>

\* line 276: histogram_.at(n), one bin per step
CalcReadBin ==
    /\ status = "ok"
    /\ seen.at = "bins"
    /\ seen' = [seen EXCEPT !.bins = Append(@, histogram_[Len(@) + 1]),
                            !.at = IF Len(seen.bins) + 1 = Len(histogram_)
                                   THEN "ret" ELSE "bins"]
    /\ UNCHANGED <<params, resources, engine, status, oob, clock, fired, thrown,
                   produced, output, samples_mutex_, windows_mutex_, pc, frame, round,
                   committed>>

\* lines 279-285: the force from what was read
CalcReturn ==
    /\ status = "ok"
    /\ seen.at = "ret"
    /\ output' = [called |-> TRUE, v |-> seen.a[1], v0 |-> seen.a[2],
                  force |-> IF seen.size = nWindows_
                            THEN ForceVector(-k_ * KernelSum(seen.bins,
                                                             Abs(seen.a[1] - seen.a[2])),
                                             seen.a[1] - seen.a[2])
                            ELSE ZeroForce]
    /\ seen' = [seen EXCEPT !.at = "idle"]
    /\ UNCHANGED <<params, resources, engine, status, oob, clock, fired, thrown,
                   produced, samples_mutex_, windows_mutex_, pc, frame, round,
                   committed>>

NextConc ==
    \/ Tick
    \/ \E T \in Threads :
          \/ CallbackEnter(T)
          \/ LockSamples(T)
          \/ SamplingBlock(T)
          \/ LockWindows(T)
          \/ RelockSamples(T)
          \/ WindowCheck(T)
          \/ EvictOldest(T)
          \/ BlurAndReduce(T)
          \/ EmplaceWindow(T)
          \/ ZeroHistogram(T)
          \/ Resum(T)
          \/ AdvanceAndReturn(T)
    \/ CalcEnter
    \/ CalcReadSize
    \/ CalcReadBin
    \/ CalcReturn

SpecConc == InitConc /\ [][NextConc]_vars

----------------------------------------------------------------------------
(* Properties *)

SumBin(ws, i) == SumSeq([w \in 1 .. Len(ws) |-> ws[w].data[i]])

Completed == fired.window /\ fired.threw = "none" /\ status = "ok"

WarmedUp == Len(windows_) = nWindows_

\* C1: with nWindows >= 1 and every reduction succeeding, after k window-update
\* cycles the history holds min(k, nWindows) entries, and they are the entries of
\* the latest cycles in the order they were produced, oldest first (so the
\* entry that leaves is always the oldest one: FIFO).
C1_WindowHistoryFifo ==
    (nWindows_ >= 1 /\ "reduce" \notin thrown) =>
        /\ Len(windows_) = Min(produced, nWindows_)
        /\ \A j \in 1 .. Len(windows_) :
              windows_[j].cycle = produced - Len(windows_) + j
        /\ (ValidParams(params) => produced = currentWindow_)

\* an entry has been evicted from a full history
C1_Witness ==
    /\ nWindows_ >= 2
    /\ "reduce" \notin thrown
    /\ produced > nWindows_
    /\ Len(windows_) = nWindows_
    /\ windows_[1].cycle = produced - nWindows_ + 1

C3_NewestWindowIsReduced ==
    (Completed /\ nWindows_ >= 1) =>
        windows_[Len(windows_)].data =
            [i \in 1 .. nBins_ |-> resources.N * fired.local[i]]

\* C4: while fewer than nWindows window-update cycles have completed, every
\* force returned by calculate is zero.
C4_WarmupZeroForce ==
    (output.called /\ currentWindow_ < nWindows_) => output.force = ZeroForce

\* C5: calculate returns the zero force whenever the two positions coincide.
C5_ZeroDistanceZeroForce ==
    /\ \A a \in CalcPairs : a[1] = a[2] => calculate(a[1], a[2]) = ZeroForce
    /\ (output.called /\ output.v = output.v0) => output.force = ZeroForce

\* calculate has run at R = 0 on a warmed-up engine with a non-zero histogram
C5_Witness ==
    /\ output.called
    /\ output.v = output.v0
    /\ WarmedUp
    /\ nWindows_ >= 1
    /\ \E i \in 1 .. nBins_ : histogram_[i] # 0

\* C6: a calculate call leaves the sample buffer, the cursor, nextSampleTime,
\* the window history, the bias histogram, the window counter and
\* nextWindowUpdateTime as they were.
C6_CalculateMutatesNothing ==
    [][output'.called => engine' = engine]_vars

\* calculate has returned a non-zero force from a warmed-up engine
C6_Witness ==
    /\ output.called
    /\ WarmedUp
    /\ currentWindow_ >= 1
    /\ output.force # ZeroForce

\* C7: a sampling cycle that fires with the cursor at nSamples signals an error:
\* in a state where none has been signalled the cursor does not exceed nSamples
\* and no store has gone past the end of the sample buffer (stated for engines
\* built from valid parameters).
C7_OverflowFailsLoudly ==
    (ValidParams(params) /\ status = "ok") => (currentSample_ <= nSamples_ /\ ~oob)

\* C8: on invalid structural parameters no engine results that callback or
\* calculate can run on.
C8_InvalidParamsRejected ==
    ~ValidParams(params) => (fired = NoFired /\ ~output.called /\ clock = 0)

C10_OutOfRangeForceRestores ==
    LET rdiff == output.v - output.v0
        R == Abs(rdiff)
    IN (output.called /\ WarmedUp /\ currentWindow_ >= nWindows_ /\ R # 0 /\ k_ > 0) =>
          /\ ~output.force.nan
          /\ R > maxDist_ => /\ output.force.val = k_ * (maxDist_ - R) * Sign(rdiff)
                             /\ output.force.val * rdiff < 0
          /\ R < minDist_ => output.force.val * rdiff > 0


\* C14: with positive periods and callback times that do not go back,
\* nextSampleTime and nextWindowUpdateTime never decrease, the drift correction
\* nextSampleTime = t + samplePeriod included; and one callback captures at most
\* one sample and performs at most one window update.
C14_ThresholdsMonotonic ==
    [][(samplePeriod_ > 0 /\ windowUpdatePeriod_ > 0) =>
          /\ nextSampleTime_' >= nextSampleTime_
          /\ nextWindowUpdateTime_' >= nextWindowUpdateTime_
          /\ clock' >= clock
          /\ (currentSample_' <= currentSample_ + 1 \/ currentSample_' = 0)
          /\ currentWindow_' <= currentWindow_ + 1
          /\ produced' <= produced + 1]_vars

\* a window update has fired in a callback that captured no sample, so the
\* drift correction alone moved nextSampleTime
C14_Witness ==
    /\ samplePeriod_ > 0 /\ windowUpdatePeriod_ > 0
    /\ Completed
    /\ ~fired.sample
    /\ currentWindow_ >= 2
    /\ nextSampleTime_ = clock + samplePeriod_


\* C15: a callback at time t fires the window-update cycle exactly when
\* t >= nextWindowUpdateTime on entry; a cycle that completes leaves
\* nextWindowUpdateTime larger by windowUpdatePeriod, the window counter larger
\* by 1, the cursor at 0 and nextSampleTime = t + samplePeriod; a callback that
\* fires neither cycle changes no engine state.  (A step that leaves no force
\* in output is a callback.)
C15_WindowCycleEffect ==
    [][(~output'.called /\ status' = "ok") =>
          /\ fired'.window <=> clock' >= nextWindowUpdateTime_
          /\ (fired'.window /\ fired'.threw = "none") =>
                /\ nextWindowUpdateTime_' = nextWindowUpdateTime_ + windowUpdatePeriod_
                /\ currentWindow_' = currentWindow_ + 1
                /\ currentSample_' = 0
                /\ nextSampleTime_' = clock' + samplePeriod_
          /\ (~fired'.window /\ ~fired'.sample) => engine' = engine]_vars

\* a cycle has completed on a buffer that held samples
C15_Witness ==
    /\ Completed
    /\ fired.cursorAtFire > 0
    /\ currentWindow_ >= 1
    /\ currentSample_ = 0
    /\ nextSampleTime_ = clock + samplePeriod_


\* C16: reduce is invoked at most once per window boundary, also when it
\* fails: after a callback whose reduce failed, a later callback at the same
\* time (no further boundary crossed) does not invoke reduce again.
C16_NoReduceRetry ==
    [][(ValidParams(params) /\ fired.threw = "reduce" /\ ~output'.called
          /\ clock' = clock)
       => ~fired'.window]_vars


\* C19: a callback whose reduce fails leaves the window state as it was: the
\* window history (length and entries), the bias histogram, the window counter
\* and nextWindowUpdateTime are unchanged.
C19_FailedReduceKeepsWindows ==
    [][(ValidParams(params) /\ ~output'.called /\ fired'.threw = "reduce") =>
          /\ windows_' = windows_
          /\ histogram_' = histogram_
          /\ currentWindow_' = currentWindow_
          /\ nextWindowUpdateTime_' = nextWindowUpdateTime_]_vars


\* The slots written since the cursor was last reset (line 218), as they were
\* when the last window-update cycle ran its blur, and the kernel sum over them.
FreshSamples == SubSeq(distanceSamples_, 1, Min(fired.cursorAtFire, nSamples_))

FreshGrid ==
    [b \in 1 .. nBins_ |->
        SumSeq([j \in 1 .. Len(FreshSamples) |->
                   Gauss((b - 1) * binWidth_ - FreshSamples[j])])]

\* C17: for any sequence of callbacks, the values blurred in a window-update
\* cycle are exactly the samples captured since the previous window boundary:
\* there is at least one, and the new window's grid is the kernel sum over
\* those samples only (no older sample, no never-written slot).
C17_BlurInputIsFresh ==
    (ValidParams(params) /\ Completed) =>
        /\ fired.cursorAtFire > 0
        /\ fired.local = FreshGrid

\* C17 amended: every window-update cycle blurs all nSamples slots of the
\* buffer; when the buffer is exactly full at the cycle (the caller contract),
\* these are exactly the samples captured since the cursor was last reset.
C17_BlurInputIsFullBuffer ==
    (ValidParams(params) /\ fired.window /\ status = "ok") =>
        /\ fired.local =
              [b \in 1 .. nBins_ |->
                  SumSeq([j \in 1 .. nSamples_ |->
                             Gauss((b - 1) * binWidth_ - distanceSamples_[j])])]
        /\ fired.cursorAtFire = nSamples_ =>
              (FreshSamples = distanceSamples_ /\ fired.local = FreshGrid)

\* a two-slot buffer was blurred with two different fresh samples
C17_Witness ==
    /\ Completed
    /\ nSamples_ = 2
    /\ fired.cursorAtFire = 2
    /\ distanceSamples_[1] # distanceSamples_[2]
    /\ currentWindow_ >= 2


\* C18: bin i stands for the distance minDist + i * binWidth, for every
\* minDist >= 0: the blur of the single sample d = minDist + j * binWidth
\* (0 <= j < nBins) has its maximum at bin j, and the force kernel term of bin n
\* is zero exactly when R = minDist + n * binWidth.  Stated for the blur and the
\* kernel of an engine that is warmed up and has been asked for a force.
C18_BinStandsForOffsetDistance ==
    (ValidParams(params) /\ WarmedUp /\ output.called) =>
        /\ \A j \in 0 .. nBins_ - 1 : \A i \in 1 .. nBins_ :
              Blur(params, <<minDist_ + j * binWidth_>>, nBins_)[j + 1]
                 >= Blur(params, <<minDist_ + j * binWidth_>>, nBins_)[i]
        /\ \A n \in 0 .. nBins_ - 1 : \A R \in minDist_ .. maxDist_ :
              (KernelArg(n, R) = 0) <=> (R = minDist_ + n * binWidth_)


\* the steps of callback in which a thread is inside the window block with
\* both mutexes taken
InWindowBlock == {"check", "evict", "reduce", "emplace", "zero", "resum", "advance"}

\* the steps in which the window update is mutating the window state
InWindowUpdate == {"evict", "reduce", "emplace", "zero", "resum", "advance"}

Blocked(T) ==
    \/ pc[T] \in {"lock_samples", "relock_samples"} /\ samples_mutex_ # 0
    \/ pc[T] = "lock_windows" /\ windows_mutex_ # 0

\* C11: with threads calling callback concurrently, windows_mutex_ is always
\* taken before samples_mutex_ when both are held: a thread that asks for
\* windows_mutex_ does not hold samples_mutex_, a thread that asks for
\* samples_mutex_ inside the window block already holds windows_mutex_, a
\* thread inside the window block holds both; and whenever some call is under
\* way, some thread under way is not blocked on a mutex (no deadlock).
C11_LockOrderNoDeadlock ==
    status = "ok" =>
        /\ \A T \in Threads :
              /\ pc[T] = "lock_windows" => samples_mutex_ # T
              /\ pc[T] = "relock_samples" => (windows_mutex_ = T /\ samples_mutex_ # T)
              /\ pc[T] \in InWindowBlock => (windows_mutex_ = T /\ samples_mutex_ = T)
              /\ pc[T] = "sampling" => (samples_mutex_ = T /\ windows_mutex_ # T)
        /\ (\E T \in Threads : pc[T] # "idle") =>
              (\E T \in Threads : pc[T] # "idle" /\ ~Blocked(T))

\* one thread waits for samples_mutex_ holding windows_mutex_ while the other
\* thread is inside its sampling block
C11_Witness ==
    \E T, U \in Threads :
        /\ pc[T] = "relock_samples"
        /\ windows_mutex_ = T
        /\ pc[U] = "sampling"
        /\ samples_mutex_ = U

\* C12: the window update of a call runs inside the critical section of its
\* sampling block: between a call's sampling block and the end of its window
\* update no other call appends a sample, moves the cursor or changes
\* nextSampleTime, so the window update sees the sample buffer, the cursor and
\* nextSampleTime exactly as the call's own sampling block left them.
C12_WindowUpdateSeesOwnSamples ==
    \A T \in Threads :
        pc[T] \in InWindowUpdate =>
            <<distanceSamples_, currentSample_, nextSampleTime_>> = frame[T].left

\* The window states a read may take its value from: the state the latest
\* window update left, and the state the update under way will leave.  Once
\* reduce has returned the update will complete, and what it will leave is
\* known; before that the update may still end with the state as it stands.
PostWindows(T) ==
    IF pc[T] = "emplace"
    THEN EmplaceBack(windows_, frame[T].new_window, <<>>)
    ELSE windows_

Completing == {T \in Threads : pc[T] \in {"emplace", "zero", "resum", "advance"}}

StableNow ==
    {committed}
    \cup { [size |-> Len(PostWindows(T)), histogram |-> Recombine(PostWindows(T))] :
              T \in Completing }
    \cup (IF Completing = {} THEN {Snapshot} ELSE {})

\* C13: a calculate that runs while callback updates the windows reads no
\* half-updated value: the windows_.size() it reads and every histogram_ bin it
\* reads is the value of the state before the window update or of the state
\* after it, never the history length between eviction and append and never a
\* bin of the zeroed histogram.
C13_NoTornRead ==
    [][/\ (seen.at = "size" /\ seen'.at # "size") =>
              seen'.size \in {c.size : c \in StableNow}
       /\ (seen.at = "bins" /\ Len(seen'.bins) = Len(seen.bins) + 1) =>
              seen'.bins[Len(seen'.bins)]
                 \in {c.histogram[Len(seen'.bins)] : c \in StableNow}]_vars

\* C20: when the threads all call callback for one time step t, and the engine
\* was less than one period behind on entry, the calls capture at most one
\* sample and perform at most one window update and one reduce call, and,
\* after the last of them returned, the engine is in the state one callback at
\* t would leave (compared when every reduce returned).
C20_DuplicateCallsIdempotent ==
    (status = "ok" /\ round.fresh /\ round.called = Threads
        /\ \A T \in Threads : pc[T] = "idle") =>
        /\ round.captures <= 1
        /\ round.updates <= 1
        /\ round.reduces <= 1
        /\ ~round.failed => engine = round.expect

\* the part of C20 that holds: duplicate calls whose reduce calls all return
C20_IdempotentWhenReduceReturns ==
    (status = "ok" /\ round.fresh /\ round.called = Threads /\ ~round.failed
        /\ \A T \in Threads : pc[T] = "idle") =>
        /\ round.captures <= 1
        /\ round.updates <= 1
        /\ round.reduces <= 1
        /\ engine = round.expect

====
